---- MODULE Spec2Model ----
(***************************************************************************)
(* Model of modules/utils/utils.py: the per-domain asynchronous rate       *)
(* limiter (AsyncRateLimiter) and the scrape statistics snapshot           *)
(* (get_scraping_stats), run by tasks of a single-threaded cooperative     *)
(* event loop.  Time is counted in integer ticks.                          *)
(***************************************************************************)
EXTENDS Integers, FiniteSets, Sequences, TLC

\* The fetch tasks that call AsyncRateLimiter.wait.
Tasks == {"t1", "t2"}

\* The domain keys passed to wait.
Domains == {"a.com", "b.com"}

\* No task holds the event loop / no task has written.
NoTask == "none"

\* A key that is not in the last_request_times dictionary.
Absent == -1

\* The URLs the crawl can discover.
Urls == {"u1", "u2", "u3"}

\* The failures a read of the URL store can raise.
Errors == {"NotInitialized", "StoreError"}

\* No failure.
NoError == "none"

\* The three reads of get_scraping_stats, in the order of lines 56-58.
Reads == <<"get_pool_size", "get_visited_count", "is_pool_empty">>

\* format_output has returned nothing (it has not returned, or it raised).
NoValue == [kind |-> "none"]

\* The format selectors passed to format_output.
Formats == {"csv", "json", "xml", "CSV"}

\* The metadata fields a scraped result can carry.
MetaKeys == {"title", "content_type", "author"}

\* format_output, line 111: essential_fields.
essential_fields == {"url", "title", "content_type"}

\* Most URLs in a results mapping; URL i sorts before URL j when i < j.
MaxResults == 2

\* Largest clock value explored.
MaxClock == 3

\* Largest value of min_delay and max_delay explored.
MaxDelayBound == 2

VARIABLES
    clock,                \* time.time()
    min_delay,            \* self.min_delay
    max_delay,            \* self.max_delay
    last_request_times,   \* self.last_request_times
    running,              \* the task the event loop is executing, or NoTask
    pc,                   \* where each task is inside wait
    domain,               \* wait's argument
    current_time,         \* wait's local current_time
    elapsed,              \* wait's local elapsed
    delay,                \* wait's local delay
    wake,                 \* the clock value at which the task's sleep expires
    stamp,                \* history: the value the task's last call wrote
    alone,                \* history: no other call on the domain overlapped
    created,              \* history: the call's read created the domain's entry
    pool,                 \* url_tracker: the URLs discovered and not yet fetched
    visited,              \* url_tracker: the URLs already fetched
    spc,                  \* where the monitoring task is in get_scraping_stats
    urls_in_pool,         \* the dictionary's 'urls_in_pool'
    urls_visited,         \* the dictionary's 'urls_visited'
    is_pool_empty,        \* the dictionary's 'is_pool_empty'
    touched,              \* history: the store changed during the call
    raised,               \* the failure the call ended with, or NoError
    thrown,               \* history: the failure a read of the call raised
    issued,               \* history: the reads the call has issued, in order
    results,              \* format_output: the caller's results mapping
    output_format,        \* format_output: the format selector
    include_urls,         \* format_output: the include_urls flag
    essential_metadata_only, \* format_output: the essential_metadata_only flag
    fpc,                  \* where the caller of format_output is
    returned,             \* the value format_output returned, or NoValue
    error,                \* the error format_output raised, or NoError
    passed                \* history: the results mapping as it was passed

limiter_vars == <<clock, min_delay, max_delay, last_request_times, running, pc,
                  domain, current_time, elapsed, delay, wake, stamp, alone,
                  created>>

store_vars == <<pool, visited>>

stats_vars == <<spc, urls_in_pool, urls_visited, is_pool_empty, touched,
                raised, thrown, issued>>

format_vars == <<results, output_format, include_urls, essential_metadata_only,
                 fpc, returned, error, passed>>

vars == <<limiter_vars, store_vars, stats_vars, format_vars>>

\* A task is inside a call of wait.
InWait(t) == pc[t] \in {"sleeping", "write"}

\* defaultdict(float).__getitem__: the value read for key d.
Get(d) == IF last_request_times[d] = Absent THEN 0 ELSE last_request_times[d]

\* random.uniform(self.min_delay, self.max_delay): the values it can return.
Uniform(lo, hi) == lo .. hi

\* The entry the task's call read at line 47.
Seen(t) == current_time[t] - elapsed[t]

\* AsyncRateLimiter.__init__, the tasks before their first call, the empty
\* URL store and the monitoring task before its first snapshot.
BaseInit ==
    /\ clock = 0
    /\ min_delay \in 0 .. MaxDelayBound
    /\ max_delay \in min_delay .. MaxDelayBound
    /\ last_request_times = [d \in Domains |-> Absent]
    /\ running = NoTask
    /\ pc = [t \in Tasks |-> "idle"]
    /\ domain = [t \in Tasks |-> "a.com"]
    /\ current_time = [t \in Tasks |-> 0]
    /\ elapsed = [t \in Tasks |-> 0]
    /\ delay = [t \in Tasks |-> 0]
    /\ wake = [t \in Tasks |-> 0]
    /\ stamp = [t \in Tasks |-> 0]
    /\ alone = [t \in Tasks |-> TRUE]
    /\ created = [t \in Tasks |-> FALSE]
    /\ pool = {}
    /\ visited = {}
    /\ spc = "idle"
    /\ urls_in_pool = 0
    /\ urls_visited = 0
    /\ is_pool_empty = FALSE
    /\ touched = FALSE
    /\ raised = NoError
    /\ thrown = NoError
    /\ issued = << >>

\* The state in which format_output has not been called: no results.
Init ==
    /\ BaseInit
    /\ results = << >>
    /\ output_format = "json"
    /\ include_urls = FALSE
    /\ essential_metadata_only = TRUE
    /\ fpc = "idle"
    /\ returned = NoValue
    /\ error = NoError
    /\ passed = << >>

\* A lock around wait, per domain: no call on d while another is inside.
MayEnter_domain_lock(t, d) ==
    /\ running = NoTask
    /\ pc[t] \in {"idle", "returned", "cancelled"}
    /\ \A u \in Tasks : ~ (InWait(u) /\ domain[u] = d)

\* A lock around wait, for all domains: no call while another task sleeps.
MayEnter_global_lock(t, d) ==
    /\ running = NoTask
    /\ pc[t] \in {"idle", "returned", "cancelled"}
    /\ \A u \in Tasks : pc[u] # "sleeping"

\* Tasks on preemptive threads: a call starts while another task is running.
MayEnter_preemptive(t, d) ==
    pc[t] \in {"idle", "returned", "cancelled"}

\* wait, line 36: a task that is not inside wait enters it as soon as the
\* event loop runs it; wait takes no lock.
MayEnter(t, d) ==
    /\ running = NoTask
    /\ pc[t] \in {"idle", "returned", "cancelled"}

\* The test of line 49 with <= for <.
ShouldSleep_le(el, dl) == el <= dl

\* wait, line 49: the test that decides the suspension.
ShouldSleep(el, dl) == el < dl

\* The operands of line 50 exchanged.
SleepFor_swapped(el, dl) == el - dl

\* wait, line 50: the argument of asyncio.sleep.
SleepFor(el, dl) == dl - el

\* wait, lines 46-50: read the clock, read the entry (a defaultdict read
\* creates a missing entry), draw the delay, and either suspend in
\* asyncio.sleep(delay - elapsed) or go on to line 51.  The guard on the
\* clock keeps every sleep within the explored clock values.
WaitCall(t, d) ==
    /\ MayEnter(t, d)
    /\ clock + max_delay <= MaxClock
    /\ \E dl \in Uniform(min_delay, max_delay) :
          /\ delay' = [delay EXCEPT ![t] = dl]
          /\ \/ /\ ShouldSleep(clock - Get(d), dl)
                /\ pc' = [pc EXCEPT ![t] = "sleeping"]
                /\ wake' = [wake EXCEPT ![t] = clock + SleepFor(clock - Get(d), dl)]
                /\ running' = NoTask
             \/ /\ ~ ShouldSleep(clock - Get(d), dl)
                /\ pc' = [pc EXCEPT ![t] = "write"]
                /\ wake' = [wake EXCEPT ![t] = 0]
                /\ running' = t
    /\ domain' = [domain EXCEPT ![t] = d]
    /\ current_time' = [current_time EXCEPT ![t] = clock]
    /\ elapsed' = [elapsed EXCEPT ![t] = clock - Get(d)]
    /\ last_request_times' = [last_request_times EXCEPT ![d] = Get(d)]
    /\ created' = [created EXCEPT ![t] = (last_request_times[d] = Absent)]
    /\ stamp' = [stamp EXCEPT ![t] = 0]
    /\ alone' = [u \in Tasks |->
                   IF u = t THEN ~ \E v \in Tasks \ {t} : InWait(v) /\ domain[v] = d
                   ELSE IF InWait(u) /\ domain[u] = d THEN FALSE
                   ELSE alone[u]]
    /\ UNCHANGED <<clock, min_delay, max_delay, store_vars, stats_vars,
                   format_vars>>

\* The loop that polls without ever leaving the suspension.
WaitResume_spin(t) ==
    /\ pc[t] = "sleeping"
    /\ running = NoTask
    /\ clock >= wake[t]
    /\ UNCHANGED vars

\* The event loop resumes a task whose sleep has expired.
WaitResume(t) ==
    /\ pc[t] = "sleeping"
    /\ running = NoTask
    /\ clock >= wake[t]
    /\ pc' = [pc EXCEPT ![t] = "write"]
    /\ running' = t
    /\ wake' = [wake EXCEPT ![t] = 0]
    /\ UNCHANGED <<clock, min_delay, max_delay, last_request_times, domain,
                   current_time, elapsed, delay, stamp, alone, created,
                   store_vars, stats_vars,
                   format_vars>>

\* The clock value read at line 46 written instead of a fresh reading.
WrittenTime_stale(t) == current_time[t]

\* The next allowed request time written instead of the current time.
WrittenTime_next(t) == clock + delay[t]

\* wait, line 51: the value written is a fresh reading of time.time().
WrittenTime(t) == clock

\* wait, line 51: record the reading for the domain and return.
WaitWrite(t) ==
    /\ pc[t] = "write"
    /\ running = t
    /\ last_request_times' = [last_request_times EXCEPT ![domain[t]] = WrittenTime(t)]
    /\ pc' = [pc EXCEPT ![t] = "returned"]
    /\ running' = NoTask
    /\ stamp' = [stamp EXCEPT ![t] = WrittenTime(t)]
    /\ UNCHANGED <<clock, min_delay, max_delay, domain, current_time, elapsed,
                   delay, wake, alone, created, store_vars, stats_vars,
                   format_vars>>

\* The task is cancelled while suspended in asyncio.sleep: CancelledError
\* leaves wait at line 50, and line 51 is not executed.
Cancel(t) ==
    /\ pc[t] = "sleeping"
    /\ running = NoTask
    /\ pc' = [pc EXCEPT ![t] = "cancelled"]
    /\ wake' = [wake EXCEPT ![t] = 0]
    /\ UNCHANGED <<clock, min_delay, max_delay, last_request_times, running,
                   domain, current_time, elapsed, delay, stamp, alone, created,
                   store_vars, stats_vars,
                   format_vars>>

\* The clock advances, also while a task is about to execute line 51.
Tick ==
    /\ clock < MaxClock
    /\ clock' = clock + 1
    /\ UNCHANGED <<min_delay, max_delay, last_request_times, running, pc, domain,
                   current_time, elapsed, delay, wake, stamp, alone, created,
                   store_vars, stats_vars,
                   format_vars>>

\* url_tracker.get_pool_size().
get_pool_size == Cardinality(pool)

\* url_tracker.get_visited_count().
get_visited_count == Cardinality(visited)

\* url_tracker.is_pool_empty().
pool_is_empty == pool = {}

\* A fetch task discovers a URL: it joins the pool.
AddUrl(u) ==
    /\ running = NoTask
    /\ u \notin pool \cup visited
    /\ pool' = pool \cup {u}
    /\ touched' = (touched \/ spc \in {"pool_read", "visited_read"})
    /\ UNCHANGED <<limiter_vars, format_vars, visited, spc, urls_in_pool, urls_visited,
                   is_pool_empty, raised, thrown, issued>>

\* A fetch task fetches a URL of the pool: it moves to the visited set.
VisitUrl(u) ==
    /\ running = NoTask
    /\ u \in pool
    /\ pool' = pool \ {u}
    /\ visited' = visited \cup {u}
    /\ touched' = (touched \/ spc \in {"pool_read", "visited_read"})
    /\ UNCHANGED <<limiter_vars, format_vars, spc, urls_in_pool, urls_visited, is_pool_empty,
                   raised, thrown, issued>>

\* The visited count read into 'urls_in_pool'.
StatsReadPool_visited ==
    /\ running = NoTask
    /\ spc \in {"idle", "done", "failed"}
    /\ urls_in_pool' = get_visited_count
    /\ urls_visited' = 0
    /\ is_pool_empty' = FALSE
    /\ touched' = FALSE
    /\ raised' = NoError
    /\ thrown' = NoError
    /\ issued' = <<Reads[1]>>
    /\ spc' = "pool_read"
    /\ UNCHANGED <<limiter_vars, format_vars, store_vars>>

\* The pool size read by taking a URL out of the pool.
StatsReadPool_takes ==
    /\ running = NoTask
    /\ spc \in {"idle", "done", "failed"}
    /\ urls_in_pool' = get_pool_size
    /\ urls_visited' = 0
    /\ is_pool_empty' = FALSE
    /\ touched' = FALSE
    /\ raised' = NoError
    /\ thrown' = NoError
    /\ issued' = <<Reads[1]>>
    /\ spc' = "pool_read"
    /\ pool' = IF pool = {} THEN pool ELSE pool \ {CHOOSE u \in pool : TRUE}
    /\ UNCHANGED <<limiter_vars, format_vars, visited>>

\* get_scraping_stats, line 56: the first read, of the pool size.
StatsReadPool ==
    /\ running = NoTask
    /\ spc \in {"idle", "done", "failed"}
    /\ urls_in_pool' = get_pool_size
    /\ urls_visited' = 0
    /\ is_pool_empty' = FALSE
    /\ touched' = FALSE
    /\ raised' = NoError
    /\ thrown' = NoError
    /\ issued' = <<Reads[1]>>
    /\ spc' = "pool_read"
    /\ UNCHANGED <<limiter_vars, format_vars, store_vars>>

\* get_scraping_stats, line 57: the second read, of the visited count.
StatsReadVisited ==
    /\ running = NoTask
    /\ spc = "pool_read"
    /\ urls_visited' = get_visited_count
    /\ issued' = Append(issued, Reads[2])
    /\ spc' = "visited_read"
    /\ UNCHANGED <<limiter_vars, format_vars, store_vars, urls_in_pool, is_pool_empty, touched,
                   raised, thrown>>

\* The emptiness of the visited set read into 'is_pool_empty'.
StatsReadEmpty_visited ==
    /\ running = NoTask
    /\ spc = "visited_read"
    /\ is_pool_empty' = (visited = {})
    /\ issued' = Append(issued, Reads[3])
    /\ spc' = "done"
    /\ UNCHANGED <<limiter_vars, format_vars, store_vars, urls_in_pool, urls_visited, touched,
                   raised, thrown>>

\* get_scraping_stats, lines 58-59: the third read, of the pool-empty flag,
\* and the return of the dictionary.
StatsReadEmpty ==
    /\ running = NoTask
    /\ spc = "visited_read"
    /\ is_pool_empty' = pool_is_empty
    /\ issued' = Append(issued, Reads[3])
    /\ spc' = "done"
    /\ UNCHANGED <<limiter_vars, format_vars, store_vars, urls_in_pool, urls_visited, touched,
                   raised, thrown>>

\* get_scraping_stats, line 56: the read of the pool size raises x; nothing
\* catches it, so the call ends with x.
StatsFailPool(x) ==
    /\ running = NoTask
    /\ spc \in {"idle", "done", "failed"}
    /\ urls_in_pool' = 0
    /\ urls_visited' = 0
    /\ is_pool_empty' = FALSE
    /\ touched' = FALSE
    /\ thrown' = x
    /\ raised' = x
    /\ issued' = <<Reads[1]>>
    /\ spc' = "failed"
    /\ UNCHANGED <<limiter_vars, format_vars, store_vars>>

\* The failure of the second read caught and replaced by a count of 0.
StatsFailVisited_default(x) ==
    /\ running = NoTask
    /\ spc = "pool_read"
    /\ urls_visited' = 0
    /\ thrown' = x
    /\ issued' = Append(issued, Reads[2])
    /\ spc' = "visited_read"
    /\ UNCHANGED <<limiter_vars, format_vars, store_vars, urls_in_pool, is_pool_empty, touched,
                   raised>>

\* get_scraping_stats, line 57: the read of the visited count raises x.
StatsFailVisited(x) ==
    /\ running = NoTask
    /\ spc = "pool_read"
    /\ thrown' = x
    /\ raised' = x
    /\ issued' = Append(issued, Reads[2])
    /\ spc' = "failed"
    /\ UNCHANGED <<limiter_vars, format_vars, store_vars, urls_in_pool, urls_visited,
                   is_pool_empty, touched>>

\* get_scraping_stats, line 58: the read of the pool-empty flag raises x.
StatsFailEmpty(x) ==
    /\ running = NoTask
    /\ spc = "visited_read"
    /\ thrown' = x
    /\ raised' = x
    /\ issued' = Append(issued, Reads[3])
    /\ spc' = "failed"
    /\ UNCHANGED <<limiter_vars, format_vars, store_vars, urls_in_pool, urls_visited,
                   is_pool_empty, touched>>

Next ==
    \/ \E t \in Tasks, d \in Domains : WaitCall(t, d)
    \/ \E t \in Tasks : WaitResume(t)
    \/ \E t \in Tasks : WaitWrite(t)
    \/ \E t \in Tasks : Cancel(t)
    \/ Tick

\* The rate limiter and the tasks that call wait.
Spec == Init /\ [][Next]_vars

StatsNext ==
    \/ \E u \in Urls : AddUrl(u)
    \/ \E u \in Urls : VisitUrl(u)
    \/ StatsReadPool
    \/ StatsReadVisited
    \/ StatsReadEmpty
    \/ \E x \in Errors : StatsFailPool(x)
    \/ \E x \in Errors : StatsFailVisited(x)
    \/ \E x \in Errors : StatsFailEmpty(x)

\* The statistics snapshot and the tasks that update the URL store.
StatsSpec == Init /\ [][StatsNext]_vars

LiveNext ==
    \/ \E t \in Tasks, d \in Domains : WaitCall(t, d)
    \/ \E t \in Tasks : WaitResume(t)
    \/ \E t \in Tasks : WaitWrite(t)
    \/ Tick

\* The rate limiter with no cancellation, a clock that advances and an event
\* loop that runs every task that is ready: asyncio resumes the tasks whose
\* sleep has expired in turn, and a running task executes line 51.
LiveSpec ==
    /\ Init
    /\ [][LiveNext]_vars
    /\ WF_vars(Tick)
    /\ \A t \in Tasks : SF_vars(WaitResume(t))
    /\ \A t \in Tasks : WF_vars(WaitWrite(t))

\* The metadata dictionaries of the results explored.
Metadatas == UNION {[K -> {"v"}] : K \in SUBSET MetaKeys}

\* The dictionaries of a well-formed result: 'content' is present; a key that
\* may be missing holds the empty set when missing and {value} when present.
Entries ==
    [content : {"text"},
     discovered_urls : {{}, {<<"/a", "/b">>}},
     metadata : {{}} \cup {{m} : m \in Metadatas}]

\* The results mappings explored: URL -> dictionary.
ResultsSet == UNION {[K -> Entries] : K \in SUBSET (1 .. MaxResults)}

\* dict.get(key, default) on a key that may be missing.
GetOr(field, default) == IF field = {} THEN default ELSE CHOOSE x \in field : TRUE

\* format_output, line 104: sorted(results.items()), the URLs in order.
Sorted(K) ==
    CHOOSE q \in [1 .. Cardinality(K) -> K] :
        \A i, j \in 1 .. Cardinality(K) : i < j => q[i] < q[j]

\* format_output, line 112: the metadata restricted to the essential fields.
Essential(m) == [k \in (DOMAIN m) \cap essential_fields |-> m[k]]

\* format_output, lines 109-112: data['metadata'] is replaced in the result's
\* own dictionary when it has the key.
FilterMetadata(data) ==
    IF data.metadata # {}
    THEN [data EXCEPT !.metadata = {Essential(GetOr(data.metadata, << >>))}]
    ELSE data

\* json.dumps of a metadata dictionary: a string determined by it.
JsonDumps(m) == [json |-> m]

\* ', '.join of a list of URLs: a string determined by it.
Join(urls) == [joined |-> urls]

\* format_output, lines 116-133: the header and one row per URL, in order.
CsvTable(res, with_urls) ==
    LET keys == Sorted(DOMAIN res)
        row(u) ==
            IF with_urls
            THEN <<u, res[u].content, Join(GetOr(res[u].discovered_urls, << >>)),
                   JsonDumps(GetOr(res[u].metadata, << >>))>>
            ELSE <<u, res[u].content, JsonDumps(GetOr(res[u].metadata, << >>))>>
        header ==
            IF with_urls
            THEN <<"URL", "Content", "Discovered URLs", "Metadata">>
            ELSE <<"URL", "Content", "Metadata">>
    IN  <<header>> \o [i \in 1 .. Len(keys) |-> row(keys[i])]

\* format_output, lines 136-145: the mapping itself with include_urls, else a
\* copy of each entry with 'metadata' and 'content' only.
JsonMapping(res, with_urls) ==
    IF with_urls
    THEN res
    ELSE [u \in DOMAIN res |->
            [metadata |-> GetOr(res[u].metadata, << >>), content |-> res[u].content]]

\* format_output, line 114.
IsCsv(f) == f = "csv"

\* Every selector other than 'csv' treated as 'json'.
IsJson_default(f) == f # "csv"

\* format_output, line 135.
IsJson(f) == f = "json"

\* format_output, lines 104-147.  sorted_results is a new dictionary over the
\* caller's own entry dictionaries, so the assignment of line 112 changes the
\* caller's results.
FormatOutput ==
    /\ fpc = "idle"
    /\ LET sorted_results ==
              IF essential_metadata_only
              THEN [u \in DOMAIN results |-> FilterMetadata(results[u])]
              ELSE results
       IN  /\ results' = sorted_results
           /\ \/ /\ IsCsv(output_format)
                 /\ returned' = [kind |-> "table",
                                 value |-> CsvTable(sorted_results, include_urls)]
                 /\ error' = NoError
              \/ /\ ~ IsCsv(output_format) /\ IsJson(output_format)
                 /\ returned' = [kind |-> "mapping",
                                 value |-> JsonMapping(sorted_results, include_urls)]
                 /\ error' = NoError
              \/ /\ ~ IsCsv(output_format) /\ ~ IsJson(output_format)
                 /\ returned' = NoValue
                 /\ error' = "ValueError"
    /\ fpc' = "done"
    /\ UNCHANGED <<limiter_vars, store_vars, stats_vars, output_format,
                   include_urls, essential_metadata_only, passed>>

\* The arguments of a call of format_output.
FormatInit ==
    /\ BaseInit
    /\ results \in ResultsSet
    /\ passed = results
    /\ output_format \in Formats
    /\ include_urls \in BOOLEAN
    /\ essential_metadata_only \in BOOLEAN
    /\ fpc = "idle"
    /\ returned = NoValue
    /\ error = NoError

FormatNext == FormatOutput

\* One call of format_output on every results mapping, selector and flags.
FormatSpec == FormatInit /\ [][FormatNext]_vars

\* The part of the system explored when the limiter, the store and the
\* snapshot run together: one task calling wait, two URLs.
FullTasks == {"t1"}
FullUrls == {"u1", "u2"}

FullNext ==
    \/ \E t \in FullTasks, d \in Domains : WaitCall(t, d)
    \/ \E t \in FullTasks : WaitResume(t)
    \/ \E t \in FullTasks : WaitWrite(t)
    \/ \E t \in FullTasks : Cancel(t)
    \/ Tick
    \/ \E u \in FullUrls : AddUrl(u)
    \/ \E u \in FullUrls : VisitUrl(u)
    \/ StatsReadPool
    \/ StatsReadVisited
    \/ StatsReadEmpty
    \/ \E x \in Errors : StatsFailPool(x)
    \/ \E x \in Errors : StatsFailVisited(x)
    \/ \E x \in Errors : StatsFailEmpty(x)

\* The rate limiter, the URL store and the statistics snapshot together.
FullSpec == Init /\ [][FullNext]_vars

----
\* C1: the first call wait(d) for a domain never passed to wait before does
\* not suspend, whatever the clock value and the delay drawn.
C1_FirstCallDoesNotSuspend ==
    \A t \in Tasks : created[t] => pc[t] # "sleeping"

\* C2: a call of wait(d) that no other call on d overlaps records a timestamp
\* at least min_delay after the entry it read, so the timestamps of two
\* consecutive calls made by one task alone differ by at least min_delay.
C2_SpacingAtLeastMinDelay ==
    \A t \in Tasks :
        (pc[t] = "returned" /\ alone[t]) => stamp[t] - Seen(t) >= min_delay

\* C2 witness: only one task ever called wait, and its latest call read the
\* timestamp of its previous call and returned min_delay or more after it.
C2_Witness ==
    \E t \in Tasks :
        /\ pc[t] = "returned" /\ alone[t]
        /\ \A u \in Tasks \ {t} : pc[u] = "idle"
        /\ min_delay > 0
        /\ Seen(t) > 0
        /\ stamp[t] >= Seen(t) + min_delay

\* C3: a step of a call wait(B) leaves the entry of every other domain A
\* unchanged, and a call wait(B) made after calls on another domain does not
\* suspend when B has no history.
C3_OtherDomainsIndependent ==
    [][\A t \in Tasks :
          pc'[t] # pc[t] =>
             /\ \A a \in Domains \ {domain'[t]} :
                   last_request_times'[a] = last_request_times[a]
             /\ ( /\ last_request_times[domain'[t]] = Absent
                  /\ \E a \in Domains : last_request_times[a] > 0 )
                => pc'[t] # "sleeping"]_vars

\* C4: while a task is suspended in wait(A), a task can enter wait(B) for
\* another domain B, goes on to line 51 without suspending when its elapsed
\* time is at least its delay, and can execute line 51.
C4_OtherDomainNotBlocked ==
    \A t \in Tasks, u \in Tasks :
        (t # u /\ pc[u] = "sleeping") =>
           /\ ( /\ pc[t] \in {"idle", "returned", "cancelled"}
                /\ running = NoTask
                /\ clock + max_delay <= MaxClock ) =>
                 \A d \in Domains \ {domain[u]} :
                    \A dl \in Uniform(min_delay, max_delay) :
                       clock - Get(d) >= dl =>
                          ENABLED (WaitCall(t, d) /\ delay'[t] = dl /\ pc'[t] = "write")
           /\ (pc[t] = "write" /\ running = t) => ENABLED WaitWrite(t)

\* C4 witness: a call on one domain began and returned strictly inside the
\* suspension of a call on another domain.
C4_Witness ==
    \E t \in Tasks, u \in Tasks :
        /\ t # u
        /\ pc[u] = "sleeping" /\ pc[t] = "returned"
        /\ domain[t] # domain[u]
        /\ current_time[u] < current_time[t]
        /\ stamp[t] < wake[u]
        /\ clock < wake[u]

\* C5: the step that completes a call wait(d) sets the entry of d to the
\* clock value at that step.
C5_WritesCompletionTime ==
    [][\A t \in Tasks :
          (pc[t] = "write" /\ pc'[t] = "returned") =>
             last_request_times'[domain[t]] = clock']_vars

\* C5 witness: a call that suspended has returned, and the entry of its domain
\* is the clock value of its completion, later than the one of its start.
C5_Witness ==
    \E t \in Tasks :
        /\ pc[t] = "returned"
        /\ elapsed[t] < delay[t]
        /\ last_request_times[domain[t]] = stamp[t]
        /\ stamp[t] > current_time[t]

\* C6: a call cancelled while suspended in wait(d) has changed no entry of the
\* dictionary.
C6_CancelledCallLeavesLedger ==
    \A t \in Tasks : pc[t] = "cancelled" => ~ created[t]

\* C7: every call of wait eventually returns.
C7_EveryCallReturns ==
    \A t \in Tasks : InWait(t) ~> (pc[t] = "returned")

\* C7 witness: a call that suspended has returned.
C7_Witness ==
    \E t \in Tasks : pc[t] = "returned" /\ elapsed[t] < delay[t] /\ stamp[t] > 0

\* C8: the check-then-set on one domain is not serialized: while a task is
\* suspended in wait(d), another task can enter wait(d).
C8_SameDomainNotSerialized ==
    \A t \in Tasks, u \in Tasks :
        ( /\ t # u
          /\ pc[u] = "sleeping"
          /\ pc[t] \in {"idle", "returned", "cancelled"}
          /\ running = NoTask
          /\ clock + max_delay <= MaxClock )
        => ENABLED WaitCall(t, domain[u])

\* C8 witness: with min_delay > 0, two calls on one domain read the same entry
\* before either wrote it and completed less than min_delay apart.
C8_Witness ==
    \E t \in Tasks, u \in Tasks :
        /\ t # u
        /\ min_delay > 0
        /\ pc[t] = "returned" /\ pc[u] = "returned"
        /\ domain[t] = domain[u]
        /\ Seen(t) = Seen(u)
        /\ stamp[t] > Seen(t) /\ stamp[u] > Seen(u)
        /\ stamp[t] - stamp[u] < min_delay
        /\ stamp[u] - stamp[t] < min_delay

\* C9 as stated: in every snapshot returned, is_pool_empty is true exactly
\* when urls_in_pool is 0, also when the pool changes between the reads.
C9_FlagMatchesSizeAlways ==
    spc = "done" => (is_pool_empty <=> urls_in_pool = 0)

\* C9 as amended: in every snapshot returned, is_pool_empty is true exactly
\* when urls_in_pool is 0, when no task changed the store between the first
\* and the third read of the call.
C9_FlagMatchesSizeWhenUntouched ==
    (spc = "done" /\ ~ touched) => (is_pool_empty <=> urls_in_pool = 0)

\* C9 witness: a snapshot of a non-empty pool taken with no change in between.
C9_Witness ==
    spc = "done" /\ ~ touched /\ urls_in_pool > 0 /\ ~ is_pool_empty

\* C10: a snapshot call during which the store did not change returns the
\* store's pool size, visited count and pool-empty flag.
C10_SnapshotEqualsStore ==
    [][(spc = "visited_read" /\ spc' = "done" /\ ~ touched) =>
          /\ urls_in_pool' = Cardinality(pool)
          /\ urls_visited' = Cardinality(visited)
          /\ is_pool_empty' = (pool = {})]_vars

\* C10 witness: a snapshot of one pending and two visited URLs taken with no
\* change in between.
C10_Witness ==
    /\ spc = "done" /\ ~ touched
    /\ Cardinality(pool) = 1 /\ Cardinality(visited) = 2
    /\ urls_in_pool = 1 /\ urls_visited = 2 /\ ~ is_pool_empty

\* C14: a call wait(d) with elapsed = clock - entry of d and delay drawn in
\* [min_delay, max_delay] suspends for exactly delay - elapsed when
\* elapsed < delay and does not suspend when elapsed >= delay; no call
\* suspends for more than max_delay.
C14_SuspendsForDelayMinusElapsed ==
    [][\A t \in Tasks :
          (pc[t] \in {"idle", "returned", "cancelled"} /\ pc'[t] # pc[t]) =>
             /\ elapsed'[t] = clock - Get(domain'[t])
             /\ delay'[t] \in min_delay .. max_delay
             /\ elapsed'[t] < delay'[t] =>
                   /\ pc'[t] = "sleeping"
                   /\ wake'[t] - clock = delay'[t] - elapsed'[t]
                   /\ wake'[t] - clock <= max_delay
             /\ elapsed'[t] >= delay'[t] =>
                   /\ pc'[t] = "write"
                   /\ running' = t]_vars

\* C14 witness: with min_delay = max_delay = D > 0, a second call made right
\* after a completed call on the same domain is suspended for D - elapsed.
C14_Witness ==
    \E t \in Tasks :
        /\ pc[t] = "sleeping"
        /\ min_delay = max_delay /\ min_delay > 0
        /\ Seen(t) > 0
        /\ elapsed[t] < max_delay
        /\ wake[t] - current_time[t] = max_delay - elapsed[t]

\* C15: between the read and the write of a call that does not suspend no
\* other task can take a step of wait, and the entry the call overwrites is
\* the entry it read.
C15_UnsuspendedCallIsOneStep ==
    \A t \in Tasks :
        (pc[t] = "write" /\ ~ (elapsed[t] < delay[t])) =>
           /\ running = t
           /\ last_request_times[domain[t]] = Seen(t)
           /\ \A u \in Tasks \ {t} :
                 /\ \A d \in Domains : ~ ENABLED WaitCall(u, d)
                 /\ ~ ENABLED WaitResume(u)
                 /\ ~ ENABLED WaitWrite(u)
                 /\ ~ ENABLED Cancel(u)

\* C15 witness: a call that did not suspend is about to write while another
\* call on the same domain, whose sleep has expired, waits for the event loop.
C15_Witness ==
    \E t \in Tasks, u \in Tasks :
        /\ t # u
        /\ pc[t] = "write" /\ ~ (elapsed[t] < delay[t])
        /\ pc[u] = "sleeping" /\ domain[u] = domain[t]
        /\ clock >= wake[u]

\* C16: every entry is at most the clock, no entry decreases from one state
\* to the next, and no entry is removed.
C16_LedgerMonotone ==
    [][\A d \in Domains :
          /\ last_request_times'[d] <= clock'
          /\ last_request_times'[d] >= last_request_times[d]
          /\ last_request_times[d] # Absent => last_request_times'[d] # Absent]_vars

\* C16 witness: two calls on one domain have returned, the entry is the later
\* timestamp and it is at most the clock.
C16_Witness ==
    \E t \in Tasks, u \in Tasks :
        /\ pc[t] = "returned" /\ pc[u] = "returned"
        /\ domain[t] = domain[u]
        /\ 0 < stamp[t] /\ stamp[t] < stamp[u]
        /\ last_request_times[domain[u]] = stamp[u]
        /\ stamp[u] <= clock

\* C12: when a read of a snapshot call fails, the call ends with that same
\* failure and returns no snapshot; the reads issued are those up to the
\* failed one, each once, in the order of lines 56-58.
C12_FailurePropagates ==
    /\ thrown # NoError =>
          /\ spc = "failed"
          /\ raised = thrown
          /\ \E n \in 1 .. Len(Reads) : issued = SubSeq(Reads, 1, n)
    /\ spc = "done" => (raised = NoError /\ thrown = NoError)

\* C12 witness: the second read failed; the call ended with its failure after
\* two reads, the third was not issued.
C12_Witness ==
    /\ spc = "failed"
    /\ thrown = "NotInitialized" /\ raised = "NotInitialized"
    /\ issued = <<"get_pool_size", "get_visited_count">>

\* C11: every step of a snapshot call, whatever wait calls and store updates
\* it is interleaved with, leaves the rate limiter's state (the ledger
\* included), the pool and the visited set unchanged.
C11_SnapshotHasNoSideEffect ==
    [][(spc' # spc \/ issued' # issued) =>
          UNCHANGED <<limiter_vars, pool, visited>>]_vars

\* C11 witness: a snapshot has returned after other tasks changed the store
\* during the call, while a wait call is suspended and the ledger holds a
\* timestamp.
C11_Witness ==
    /\ spc = "done" /\ touched
    /\ \E t \in Tasks : pc[t] = "sleeping" /\ current_time[t] > 0
    /\ \E d \in Domains : last_request_times[d] > 0
    /\ visited # {}

\* C13: format_output ends with ValueError and returns nothing for every
\* selector other than "csv" and "json", whatever the flags, and never ends
\* with that error for "csv" and "json".
C13_InvalidFormatRaises ==
    fpc = "done" =>
       /\ error = "ValueError" <=> output_format \notin {"csv", "json"}
       /\ error = "ValueError" => returned = NoValue
       /\ error = NoError => returned # NoValue

\* C13 witness: a call with an unknown selector, both flags set and a
\* non-empty mapping has ended with ValueError.
C13_Witness ==
    /\ fpc = "done" /\ output_format = "xml"
    /\ include_urls /\ essential_metadata_only
    /\ DOMAIN results # {}
    /\ error = "ValueError" /\ returned = NoValue

\* C17: format_output leaves the results mapping passed by the caller
\* unchanged, for every selector and every combination of the flags.
C17_ResultsUnchanged ==
    fpc = "done" => results = passed

====
